---------------------------- MODULE Spec2Model ----------------------------
(***************************************************************************)
(* A model of the faunadb Go client: the Value variants and their JSON     *)
(* encoding (values.go), and FaunaClient.Query / BatchQuery (client.go).   *)
(*                                                                         *)
(* A JSON document is modelled as the tree json.Marshal writes and the     *)
(* JSON parser reads: null, booleans, number tokens, strings, arrays and   *)
(* objects.  A string is a sequence of one-character strings, so that the  *)
(* date and time layouts are formatted and parsed character by character.  *)
(* A number token is its digits: mant with fd fractional digits.           *)
(***************************************************************************)
EXTENDS Integers, Sequences, FiniteSets, TLC

(***************************************************************************)
(* Bounds of the model.                                                    *)
(***************************************************************************)
MaxLen == 2         \* longest ArrayV built as an input
MaxKeys == 2        \* most keys of an ObjectV / SetRefV built as an input

(***************************************************************************)
(* time.Time: an instant (sec seconds and nano nanoseconds after           *)
(* 2019-12-30T00:00:00Z) held with the offset of its location, in seconds  *)
(* east of UTC.                                                            *)
(***************************************************************************)
\* The epoch day of the model, 2019-12-30, in days after 1970-01-01.
EpochDays == 18262 - 2

Time(sec, nano, off) == [sec |-> sec, nano |-> nano, off |-> off]

IsLeap(y) == (y % 4 = 0 /\ y % 100 # 0) \/ y % 400 = 0

DaysIn(y, m) ==
    IF m = 2 THEN (IF IsLeap(y) THEN 29 ELSE 28)
    ELSE IF m \in {4, 6, 9, 11} THEN 30 ELSE 31

\* The civil date of the n-th day after the epoch day (proleptic Gregorian
\* calendar, computed from the day count as the time package does).
CivilFromDays(n) ==
    LET z == n + EpochDays + 719468
        era == z \div 146097
        doe == z - era * 146097
        yoe == (doe - doe \div 1460 + doe \div 36524 - doe \div 146096) \div 365
        doy == doe - (365 * yoe + yoe \div 4 - yoe \div 100)
        mp == (5 * doy + 2) \div 153
        d == doy - (153 * mp + 2) \div 5 + 1
        m == IF mp < 10 THEN mp + 3 ELSE mp - 9
        y == yoe + era * 400 + (IF m <= 2 THEN 1 ELSE 0)
    IN  [y |-> y, m |-> m, d |-> d]

\* The days after the epoch day of a civil date.
DaysFromCivil(c) ==
    LET y == c.y - (IF c.m <= 2 THEN 1 ELSE 0)
        era == y \div 400
        yoe == y - era * 400
        doy == (153 * (IF c.m > 2 THEN c.m - 3 ELSE c.m + 9) + 2) \div 5 + c.d - 1
        doe == yoe * 365 + yoe \div 4 - yoe \div 100 + doy
    IN  era * 146097 + doe - 719468 - EpochDays

\* The wall clock a time.Time shows in its own location.
WallSeconds(tm) == tm.sec + tm.off

WallDate(tm) == CivilFromDays(WallSeconds(tm) \div (24 * 3600))

WallClock(tm) ==
    LET s == WallSeconds(tm) % (24 * 3600)
    IN  [hh |-> s \div 3600, mm |-> (s % 3600) \div 60, ss |-> s % 60]

DigitChars == <<"0", "1", "2", "3", "4", "5", "6", "7", "8", "9">>

IsDigit(c) == \E i \in 1..10 : DigitChars[i] = c

DigitValue(c) == (CHOOSE i \in 1..10 : DigitChars[i] = c) - 1

\* n in decimal, zero-padded to w digits.
RECURSIVE Pad(_, _)
Pad(n, w) == IF w = 0 THEN <<>> ELSE Pad(n \div 10, w - 1) \o <<DigitChars[(n % 10) + 1]>>

RECURSIVE TrimZeros(_)
TrimZeros(s) ==
    IF s = <<>> THEN <<>>
    ELSE IF s[Len(s)] = "0" THEN TrimZeros(SubSeq(s, 1, Len(s) - 1)) ELSE s

\* The layout element ".999999999": up to nine digits, trailing zeros removed,
\* and nothing at all (no point either) when the nanoseconds are zero.
FormatFrac9(nano) ==
    LET d == TrimZeros(Pad(nano, 9))
    IN  IF d = <<>> THEN <<>> ELSE <<".">> \o d

\* time.Time.Format("2006-01-02")
FormatDateLayout(tm) ==
    LET c == WallDate(tm)
    IN  Pad(c.y, 4) \o <<"-">> \o Pad(c.m, 2) \o <<"-">> \o Pad(c.d, 2)

\* time.Time.Format("2006-01-02T15:04:05.999999999Z"): a "Z" that no "07"
\* follows is literal text, so the fields printed are those of the time's own
\* location and the "Z" is appended whatever that location is.
FormatTimeLayout(tm) ==
    LET k == WallClock(tm)
    IN  FormatDateLayout(tm) \o <<"T">> \o Pad(k.hh, 2) \o <<":">> \o Pad(k.mm, 2)
            \o <<":">> \o Pad(k.ss, 2) \o FormatFrac9(tm.nano) \o <<"Z">>

(***************************************************************************)
(* JSON trees.                                                             *)
(***************************************************************************)
JNull == [j |-> "null"]
JBool(b) == [j |-> "bool", b |-> b]
JNum(mant, fd) == [j |-> "num", mant |-> mant, fd |-> fd]
JStr(s) == [j |-> "str", s |-> s]
JArr(a) == [j |-> "arr", a |-> a]
JObj(m) == [j |-> "obj", m |-> m]
\* A body that is no JSON document.
JInvalid == [j |-> "invalid"]

(***************************************************************************)
(* The Value variants.                                                     *)
(***************************************************************************)
StringV(s) == [t |-> "StringV", s |-> s]
LongV(n) == [t |-> "LongV", n |-> n]
\* A float64 is held in tenths: DoubleV(25) is 2.5 and DoubleV(30) is 3.0.
DoubleV(tenths) == [t |-> "DoubleV", tenths |-> tenths]
BooleanV(b) == [t |-> "BooleanV", b |-> b]
DateV(tm) == [t |-> "DateV", tm |-> tm]
TimeV(tm) == [t |-> "TimeV", tm |-> tm]
RefV(id) == [t |-> "RefV", id |-> id]
SetRefV(params) == [t |-> "SetRefV", params |-> params]
ObjectV(m) == [t |-> "ObjectV", m |-> m]
\* A slice is nil or not; a nil slice has no elements.
ArrayV(isNil, a) == [t |-> "ArrayV", isNil |-> isNil, a |-> a]
NullV == [t |-> "NullV"]

IsContainer(v) == v.t \in {"ObjectV", "ArrayV"}

(***************************************************************************)
(* Encoding: the MarshalJSON methods, and json.Marshal for the variants    *)
(* that define none (it writes a string, a number, a boolean, and for a    *)
(* slice an array, or null when the slice is nil).                         *)
(***************************************************************************)
escape(key, value) == JObj([k \in {key} |-> value])

\* strconv's shortest decimal form of a float64: no fraction for a whole number.
MarshalFloat(tenths) ==
    IF tenths % 10 = 0 THEN JNum(tenths \div 10, 0) ELSE JNum(tenths, 1)

DateVMarshalJSON(date) == escape("@date", JStr(FormatDateLayout(date.tm)))

TimeVMarshalJSON(localTime) == escape("@ts", JStr(FormatTimeLayout(localTime.tm)))

RefVMarshalJSON(ref) == escape("@ref", JStr(ref.id))

NullVMarshalJSON == JNull

RECURSIVE jsonMarshal(_)

MarshalMap(m) == JObj([k \in DOMAIN m |-> jsonMarshal(m[k])])

SetRefVMarshalJSON(set) == escape("@set", MarshalMap(set.params))

ObjectVMarshalJSON(obj) == escape("object", MarshalMap(obj.m))

MarshalSlice(arr) ==
    IF arr.isNil THEN JNull ELSE JArr([i \in 1..Len(arr.a) |-> jsonMarshal(arr.a[i])])

jsonMarshal(v) ==
    CASE v.t = "StringV" -> JStr(v.s)
      [] v.t = "LongV" -> JNum(v.n, 0)
      [] v.t = "DoubleV" -> MarshalFloat(v.tenths)
      [] v.t = "BooleanV" -> JBool(v.b)
      [] v.t = "DateV" -> DateVMarshalJSON(v)
      [] v.t = "TimeV" -> TimeVMarshalJSON(v)
      [] v.t = "RefV" -> RefVMarshalJSON(v)
      [] v.t = "SetRefV" -> SetRefVMarshalJSON(v)
      [] v.t = "ObjectV" -> ObjectVMarshalJSON(v)
      [] v.t = "ArrayV" -> MarshalSlice(v)
      [] v.t = "NullV" -> NullVMarshalJSON

(***************************************************************************)
(* Decoding: parseJSON.  Its source is not part of the files at hand; it   *)
(* is modelled from the decoding rules of the specification.               *)
(***************************************************************************)
ReservedTags == {"@date", "@ts", "@ref", "@set"}

Parsed(v) == [ok |-> TRUE, v |-> v]
WireFormatError == [ok |-> FALSE, err |-> "WireFormatError"]

AllDigits(s) == \A i \in 1..Len(s) : IsDigit(s[i])

RECURSIVE DigitsValue(_)
DigitsValue(s) ==
    IF s = <<>> THEN 0
    ELSE 10 * DigitsValue(SubSeq(s, 1, Len(s) - 1)) + DigitValue(s[Len(s)])

\* "YYYY-MM-DD" to [ok, days]: the days after the epoch day of a calendar date.
ParseDateText(s) ==
    IF /\ Len(s) = 10
       /\ s[5] = "-" /\ s[8] = "-"
       /\ AllDigits(SubSeq(s, 1, 4)) /\ AllDigits(SubSeq(s, 6, 7))
       /\ AllDigits(SubSeq(s, 9, 10))
    THEN LET y == DigitsValue(SubSeq(s, 1, 4))
             m == DigitsValue(SubSeq(s, 6, 7))
             d == DigitsValue(SubSeq(s, 9, 10))
         IN  IF m \in 1..12 /\ d >= 1 /\ d <= DaysIn(y, m)
             THEN [ok |-> TRUE, days |-> DaysFromCivil([y |-> y, m |-> m, d |-> d])]
             ELSE [ok |-> FALSE, days |-> 0]
    ELSE [ok |-> FALSE, days |-> 0]

ParseDate(s) ==
    LET r == ParseDateText(s)
    IN  IF r.ok THEN Parsed(DateV(Time(r.days * 24 * 3600, 0, 0))) ELSE WireFormatError

\* Up to nine fractional digits to nanoseconds.
FracNanos(digits) == DigitsValue(digits \o [i \in 1..(9 - Len(digits)) |-> "0"])

\* "YYYY-MM-DDTHH:MM:SS[.f...]Z" to the UTC instant it denotes.
ParseTime(s) ==
    IF /\ Len(s) >= 20
       /\ s[11] = "T" /\ s[14] = ":" /\ s[17] = ":" /\ s[Len(s)] = "Z"
       /\ AllDigits(SubSeq(s, 12, 13)) /\ AllDigits(SubSeq(s, 15, 16))
       /\ AllDigits(SubSeq(s, 18, 19))
       /\ ParseDateText(SubSeq(s, 1, 10)).ok
       /\ \/ Len(s) = 20
          \/ /\ Len(s) \in 22..30
             /\ s[20] = "."
             /\ AllDigits(SubSeq(s, 21, Len(s) - 1))
    THEN LET days == ParseDateText(SubSeq(s, 1, 10)).days
             hh == DigitsValue(SubSeq(s, 12, 13))
             mm == DigitsValue(SubSeq(s, 15, 16))
             ss == DigitsValue(SubSeq(s, 18, 19))
             nano == IF Len(s) = 20 THEN 0 ELSE FracNanos(SubSeq(s, 21, Len(s) - 1))
         IN  IF hh < 24 /\ mm < 60 /\ ss < 60
             THEN Parsed(TimeV(Time(days * 24 * 3600 + hh * 3600 + mm * 60 + ss, nano, 0)))
             ELSE WireFormatError
    ELSE WireFormatError

RECURSIVE parseJSON(_)

\* The entries of a JSON object decoded one by one, keys copied verbatim.
ParseMapping(m) ==
    LET r == [k \in DOMAIN m |-> parseJSON(m[k])]
    IN  IF \A k \in DOMAIN m : r[k].ok
        THEN Parsed([k \in DOMAIN m |-> r[k].v])
        ELSE WireFormatError

ParseSpecial(key, payload) ==
    CASE key = "@date" -> IF payload.j = "str" THEN ParseDate(payload.s) ELSE WireFormatError
      [] key = "@ts" -> IF payload.j = "str" THEN ParseTime(payload.s) ELSE WireFormatError
      [] key = "@ref" -> IF payload.j = "str" THEN Parsed(RefV(payload.s)) ELSE WireFormatError
      [] key = "@set" ->
            IF payload.j = "obj"
            THEN LET r == ParseMapping(payload.m)
                 IN  IF r.ok THEN Parsed(SetRefV(r.v)) ELSE WireFormatError
            ELSE WireFormatError
      [] key = "object" ->
            IF payload.j = "obj"
            THEN LET r == ParseMapping(payload.m)
                 IN  IF r.ok THEN Parsed(ObjectV(r.v)) ELSE WireFormatError
            ELSE WireFormatError

parseJSON(doc) ==
    CASE doc.j = "invalid" -> WireFormatError
      [] doc.j = "null" -> Parsed(NullV)
      [] doc.j = "bool" -> Parsed(BooleanV(doc.b))
      [] doc.j = "num" ->
            IF doc.fd = 0 THEN Parsed(LongV(doc.mant)) ELSE Parsed(DoubleV(doc.mant))
      [] doc.j = "str" -> Parsed(StringV(doc.s))
      [] doc.j = "arr" ->
            LET r == [i \in 1..Len(doc.a) |-> parseJSON(doc.a[i])]
            IN  IF \A i \in 1..Len(doc.a) : r[i].ok
                THEN Parsed(ArrayV(FALSE, [i \in 1..Len(doc.a) |-> r[i].v]))
                ELSE WireFormatError
      [] doc.j = "obj" ->
            IF /\ Cardinality(DOMAIN doc.m) = 1
               /\ DOMAIN doc.m \subseteq (ReservedTags \cup {"object"})
            THEN LET key == CHOOSE k \in DOMAIN doc.m : TRUE
                 IN  ParseSpecial(key, doc.m[key])
            ELSE LET r == ParseMapping(doc.m)
                 IN  IF r.ok THEN Parsed(ObjectV(r.v)) ELSE WireFormatError

(***************************************************************************)
(* Errors are strings; "nil" is no error.  Nil is the nil Value.           *)
(***************************************************************************)
NoError == "nil"
Nil == [t |-> "nil"]

(***************************************************************************)
(* Field paths.  A path is a sequence of steps, by object key or by array  *)
(* index.  Field.get and FieldValue.GetValue are not part of the files at  *)
(* hand; they are modelled from the specification's field-path contract.   *)
(***************************************************************************)
ObjKey(k) == [s |-> "key", key |-> k]
ArrIndex(i) == [s |-> "idx", idx |-> i]

validField(v) == [valid |-> TRUE, v |-> v]
invalidField(e) == [valid |-> FALSE, err |-> e]

NotTransversable == "TraversalError: not transversable"
MissingKey == "TraversalError: missing key"
IndexOutOfRange == "TraversalError: index out of range"
TraversalErrors == {NotTransversable, MissingKey, IndexOutOfRange}

\* One step into a container: the child, or the failure.
StepInto(step, v) ==
    IF v.t = "ObjectV" /\ step.s = "key"
    THEN IF step.key \in DOMAIN v.m THEN validField(v.m[step.key])
         ELSE invalidField(MissingKey)
    ELSE IF v.t = "ArrayV" /\ step.s = "idx"
    THEN IF step.idx + 1 \in 1..Len(v.a) THEN validField(v.a[step.idx + 1])
         ELSE invalidField(IndexOutOfRange)
    ELSE invalidField(NotTransversable)

RECURSIVE FieldGet(_, _)
FieldGet(path, v) ==
    IF ~IsContainer(v) THEN invalidField(NotTransversable)
    ELSE IF path = <<>> THEN validField(v)
    ELSE LET child == StepInto(Head(path), v)
         IN  IF ~child.valid THEN child
             ELSE IF Tail(path) = <<>> THEN child
             ELSE FieldGet(Tail(path), child.v)

GetValue(fv) ==
    IF fv.valid THEN [value |-> fv.v, err |-> NoError]
    ELSE [value |-> Nil, err |-> fv.err]

\* At with a fault seeded: a leaf answers a path with itself.
AtResolvingLeaf(v, field) ==
    IF IsContainer(v) THEN FieldGet(field, v) ELSE validField(v)

\* The At method of every variant: return field.get(v).
At(v, field) == FieldGet(field, v)

(***************************************************************************)
(* Native destinations of Get.  A Go type is a descriptor; a native value  *)
(* carries its type.  The value decoder (newValueDecoder, assign,          *)
(* decodeMap, decodeArray) is not part of the files at hand; it is         *)
(* modelled from the specification's decoding rules.                       *)
(***************************************************************************)
TString == [k |-> "string"]
TInt64 == [k |-> "int64"]
TFloat64 == [k |-> "float64"]
TValue == [k |-> "Value"]
TPtr(e) == [k |-> "ptr", e |-> e]
TSlice(e) == [k |-> "slice", e |-> e]
TMap(e) == [k |-> "map", e |-> e]

NString(s) == [ty |-> TString, s |-> s]
NInt64(n) == [ty |-> TInt64, n |-> n]
NFloat64(tenths) == [ty |-> TFloat64, tenths |-> tenths]
NValue(v) == [ty |-> TValue, v |-> v]
NNilPtr(e) == [ty |-> TPtr(e), isNil |-> TRUE]
NPtr(e, to) == [ty |-> TPtr(e), isNil |-> FALSE, to |-> to]
NNilSlice(e) == [ty |-> TSlice(e), isNil |-> TRUE, a |-> <<>>]
NSlice(e, a) == [ty |-> TSlice(e), isNil |-> FALSE, a |-> a]
NNilMap(e) == [ty |-> TMap(e), isNil |-> TRUE, m |-> <<>>]
NMap(e, m) == [ty |-> TMap(e), isNil |-> FALSE, m |-> m]

\* The zero value of a Go type.
Zero(ty) ==
    CASE ty.k = "string" -> NString(<<>>)
      [] ty.k = "int64" -> NInt64(0)
      [] ty.k = "float64" -> NFloat64(0)
      [] ty.k = "Value" -> NValue(Nil)
      [] ty.k = "ptr" -> NNilPtr(ty.e)
      [] ty.k = "slice" -> NNilSlice(ty.e)
      [] ty.k = "map" -> NNilMap(ty.e)

Decoded(dest) == [err |-> NoError, dest |-> dest]
DecodeFailed(e, dest) == [err |-> e, dest |-> dest]

TypeMismatch == "DecodeError: type mismatch"
PrecisionLoss == "DecodeError: precision loss"

RECURSIVE Get(_, _)

\* A pointer destination: a new element is decoded and the pointer set to it.
decodePtr(dest, v) ==
    LET r == Get(v, Zero(dest.ty.e))
    IN  IF r.err = NoError THEN Decoded(NPtr(dest.ty.e, r.dest))
        ELSE DecodeFailed(r.err, dest)

assign(dest, v) ==
    CASE dest.ty.k = "Value" -> Decoded(NValue(v))
      [] dest.ty.k = "ptr" -> decodePtr(dest, v)
      [] dest.ty.k = "string" ->
            IF v.t = "StringV" THEN Decoded(NString(v.s)) ELSE DecodeFailed(TypeMismatch, dest)
      [] dest.ty.k = "int64" ->
            IF v.t = "LongV" THEN Decoded(NInt64(v.n))
            ELSE IF v.t = "DoubleV"
            THEN IF v.tenths % 10 = 0 THEN Decoded(NInt64(v.tenths \div 10))
                 ELSE DecodeFailed(PrecisionLoss, dest)
            ELSE DecodeFailed(TypeMismatch, dest)
      [] dest.ty.k = "float64" ->
            IF v.t = "LongV" THEN Decoded(NFloat64(10 * v.n))
            ELSE IF v.t = "DoubleV" THEN Decoded(NFloat64(v.tenths))
            ELSE DecodeFailed(TypeMismatch, dest)
      [] OTHER -> DecodeFailed(TypeMismatch, dest)

\* The first failure among the results r[1..n], or no error.
FirstError(r) ==
    IF \E i \in 1..Len(r) : r[i].err # NoError
    THEN r[CHOOSE i \in 1..Len(r) :
               r[i].err # NoError /\ \A j \in 1..(i - 1) : r[j].err = NoError].err
    ELSE NoError

\* Every element is decoded into a fresh slice, stored only when all succeeded.
decodeArray(dest, arr) ==
    CASE dest.ty.k = "Value" -> Decoded(NValue(arr))
      [] dest.ty.k = "ptr" -> decodePtr(dest, arr)
      [] dest.ty.k = "slice" ->
            LET r == [i \in 1..Len(arr.a) |-> Get(arr.a[i], Zero(dest.ty.e))]
            IN  IF FirstError(r) = NoError
                THEN Decoded(NSlice(dest.ty.e, [i \in 1..Len(arr.a) |-> r[i].dest]))
                ELSE DecodeFailed(FirstError(r), dest)
      [] OTHER -> DecodeFailed(TypeMismatch, dest)

\* Every entry is decoded into a fresh map, stored only when all succeeded.
decodeMap(dest, obj) ==
    CASE dest.ty.k = "Value" -> Decoded(NValue(obj))
      [] dest.ty.k = "ptr" -> decodePtr(dest, obj)
      [] dest.ty.k = "map" ->
            LET r == [k \in DOMAIN obj.m |-> Get(obj.m[k], Zero(dest.ty.e))]
            IN  IF \A k \in DOMAIN obj.m : r[k].err = NoError
                THEN Decoded(NMap(dest.ty.e, [k \in DOMAIN obj.m |-> r[k].dest]))
                ELSE DecodeFailed(r[CHOOSE k \in DOMAIN obj.m : r[k].err # NoError].err, dest)
      [] OTHER -> DecodeFailed(TypeMismatch, dest)

\* NullV.Get: return nil.
NullVGet(dest) == Decoded(dest)

\* ObjectV.Get: newValueDecoder(i).decodeMap(obj)
ObjectVGet(obj, dest) == decodeMap(dest, obj)

\* ArrayV.Get with a fault seeded: the elements are stored in the destination one by
\* one, so that a failing element leaves the ones before it behind.
ArrayVGetInPlace(arr, dest) ==
    LET r == decodeArray(dest, arr)
    IN  IF r.err # NoError /\ dest.ty.k = "slice"
        THEN LET e == [i \in 1..Len(arr.a) |-> Get(arr.a[i], Zero(dest.ty.e))]
                 n == CHOOSE i \in 1..Len(arr.a) :
                        e[i].err # NoError /\ \A j \in 1..(i - 1) : e[j].err = NoError
             IN  DecodeFailed(r.err, NSlice(dest.ty.e, [i \in 1..(n - 1) |-> e[i].dest]))
        ELSE r

\* ArrayV.Get: newValueDecoder(i).decodeArray(arr)
ArrayVGet(arr, dest) == decodeArray(dest, arr)

\* The Get method of the variant v holds, on the destination dest.
Get(v, dest) ==
    CASE v.t = "NullV" -> NullVGet(dest)
      [] v.t = "ObjectV" -> ObjectVGet(v, dest)
      [] v.t = "ArrayV" -> ArrayVGet(v, dest)
      [] OTHER -> assign(dest, v)


(***************************************************************************)
(* FaunaClient.  An http.Response is nil or holds a status and a body; the *)
(* transport (http.Client.Do) and the server are the environment.          *)
(***************************************************************************)
NilResponse == [isNil |-> TRUE]
Response(status, body) == [isNil |-> FALSE, status |-> status, body |-> body]

defaultEndpoint == "https://db.fauna.com"

\* http.NewRequest fails on a URL it cannot parse.
BadEndpoint == ":bad-url"
NewRequestError == "RequestError: cannot parse the endpoint"

prepareRequest(endpoint, expr) ==
    LET body == jsonMarshal(expr)
    IN  IF endpoint = BadEndpoint
        THEN [request |-> Nil, err |-> NewRequestError]
        ELSE [request |-> [method |-> "POST", url |-> endpoint, body |-> body],
              err |-> NoError]

\* checkForResponseErrors is not part of the files at hand: a status outside
\* 2xx is the server's error, named after the status.
checkForResponseErrors(response) ==
    IF response.status \in 200..299 THEN NoError
    ELSE IF response.status = 401 THEN "ServerError: unauthorized"
    ELSE "ServerError: bad request"

resource == <<ObjKey("resource")>>

\* parseResponse with a fault seeded: a failed parse is answered with a null
\* value and no error.
parseResponseSwallowingParseError(response) ==
    LET r == parseJSON(response.body)
    IN  IF ~r.ok THEN [value |-> NullV, err |-> NoError]
        ELSE GetValue(At(r.v, resource))

\* parseResponse with a fault seeded: an unresolved path is answered with no
\* value and no error.
parseResponseDroppingPathError(response) ==
    LET r == parseJSON(response.body)
    IN  IF ~r.ok THEN [value |-> Nil, err |-> r.err]
        ELSE [value |-> GetValue(At(r.v, resource)).value, err |-> NoError]

parseResponse(response) ==
    LET r == parseJSON(response.body)
    IN  IF ~r.ok THEN [value |-> Nil, err |-> r.err]
        ELSE GetValue(At(r.v, resource))

(***************************************************************************)
(* Inputs.                                                                 *)
(***************************************************************************)
StrA == <<"a">>
StrBob == <<"B", "o", "b">>
StrRef == <<"c", "/", "1">>
Str20200101 == <<"2", "0", "2", "0", "-", "0", "1", "-", "0", "1">>
Str20200230 == <<"2", "0", "2", "0", "-", "0", "2", "-", "3", "0">>
Str20201301 == <<"2", "0", "2", "0", "-", "1", "3", "-", "0", "1">>
StrNotATimestamp ==
    <<"n", "o", "t", "-", "a", "-", "r", "e", "a", "l", "-",
      "t", "i", "m", "e", "s", "t", "a", "m", "p">>
StrTs == Str20200101 \o <<"T", "1", "0", ":", "2", "0", ":", "3", "0", ".", "5", "Z">>
StrTsBadHour == Str20200101 \o <<"T", "2", "5", ":", "0", "0", ":", "0", "0", "Z">>

Day == 24 * 3600

\* 2019-12-31T23:30:00Z and 2020-02-29T01:02:03Z
SampleSeconds == {2 * Day - 1800, 61 * Day + 3723}
SampleNanos == {0, 1, 500000000, 123456789}
\* UTC, UTC+1 and UTC-5
SampleOffsets == {0, 3600, 0 - 5 * 3600}
SampleTimes == {Time(s, n, o) : s \in SampleSeconds, n \in SampleNanos, o \in SampleOffsets}

\* Midnights of 2019-12-31, 2020-01-01, 2020-02-29, 2020-03-01 and 2020-06-15,
\* and half an hour before the new year in UTC seen from UTC+1.
SampleDates ==
    {Time(d * Day, 0, 0) : d \in {1, 2, 61, 62, 168}}
        \cup {Time(2 * Day - 3600, 0, 3600), Time(2 * Day - 1800, 0, 3600)}

Leaves ==
    {StringV(s) : s \in {<<>>, StrA, StrBob}}
        \cup {LongV(n) : n \in {0 - 5, 0, 30}}
        \cup {DoubleV(d) : d \in {25, 30, 0 - 15}}
        \cup {BooleanV(b) : b \in BOOLEAN}
        \cup {DateV(tm) : tm \in SampleDates}
        \cup {TimeV(tm) : tm \in SampleTimes}
        \cup {RefV(StrRef), NullV}

InnerLeaves ==
    {StringV(StrA), StringV(Str20200101), LongV(30), DoubleV(25),
     DateV(Time(168 * Day, 0, 0)),
     TimeV(Time(61 * Day + 3723, 123456789, 0)), RefV(StrRef), NullV}

Keys == {"name", "age", "@date", "object"}
ParamKeys == {"match", "terms"}

\* The maps of at most n keys among keys, and the sequences of at most n elements.
Maps(keys, vals, n) ==
    UNION {[ks -> vals] : ks \in {S \in SUBSET keys : Cardinality(S) <= n}}
Seqs(vals, n) == UNION {[1..k -> vals] : k \in 0..n}

Level1 ==
    {ObjectV(m) : m \in Maps(Keys, InnerLeaves, MaxKeys)}
        \cup {ArrayV(FALSE, a) : a \in Seqs(InnerLeaves, MaxLen)}
        \cup {ArrayV(TRUE, <<>>)}
        \cup {SetRefV(m) : m \in Maps(ParamKeys, InnerLeaves, MaxKeys)}

ObjBob == ObjectV(("name" :> StringV(StrBob)) @@ ("age" :> LongV(30)))

InnerContainers ==
    {ObjectV(<<>>), ObjBob, ObjectV("@date" :> StringV(Str20200101)),
     ObjectV("@ref" :> StringV(StrRef)),
     ArrayV(FALSE, <<>>), ArrayV(FALSE, <<StringV(StrA), NullV>>),
     SetRefV("match" :> RefV(StrRef))}

Level2 ==
    {ObjectV(m) : m \in Maps({"name", "@set"}, InnerContainers, 1)}
        \cup {ArrayV(FALSE, a) : a \in Seqs(InnerContainers, MaxLen)}
        \cup {SetRefV(m) : m \in Maps(ParamKeys, InnerContainers, 1)}

Level3 ==
    {ArrayV(FALSE, <<ObjectV("name" :> ArrayV(FALSE, <<ObjBob>>))>>),
     ObjectV("object" :> SetRefV("terms" :> ObjectV("@ts" :> ObjBob)))}

Values == Leaves \cup Level1 \cup Level2 \cup Level3

\* Single-key objects keyed by a reserved tag, with payloads of the tag's format.
WellFormedTagged ==
    {escape("@date", JStr(Str20200101)), escape("@ts", JStr(StrTs)),
     escape("@ref", JStr(StrRef)), escape("@set", JObj(<<>>)),
     escape("@set", JObj("match" :> JStr(StrA)))}

\* The same, with payloads that are not of the tag's format.
MalformedTagged ==
    {escape("@date", JStr(Str20200230)), escape("@date", JStr(Str20201301)),
     escape("@date", JStr(StrBob)), escape("@date", JNum(5, 0)),
     escape("@ts", JStr(StrNotATimestamp)), escape("@ts", JStr(StrTsBadHour)),
     escape("@ts", JStr(Str20200101)), escape("@ref", JNum(3, 0)),
     escape("@ref", JNull), escape("@set", JArr(<<>>)), escape("@set", JStr(StrA))}

Tagged == WellFormedTagged \cup MalformedTagged

\* The places of a response document a node n is put at.
Placements(n) ==
    {n, JArr(<<n>>), JArr(<<JStr(StrA), n>>), JObj("data" :> n),
     JObj("resource" :> n), JObj(("resource" :> n) @@ ("extra" :> JNum(1, 0))),
     JObj("resource" :> JObj("data" :> JArr(<<n>>))),
     escape("object", JObj("k" :> n)), escape("object", n),
     JObj("resource" :> escape("object", n)),
     escape("@set", JObj("p" :> n)), escape("@set", n)}

PlainDocs ==
    {JInvalid, JNull, JStr(StrA), JNum(30, 0), JNum(25, 1), JBool(FALSE), JArr(<<>>),
     JObj(<<>>), JObj("resource" :> JNull), JObj("resource" :> JStr(StrBob)),
     JObj("resource" :> JArr(<<JStr(StrA), JNull>>)),
     JObj("resource" :> JArr(<<JNum(30, 0), JObj("name" :> JStr(StrBob))>>)),
     JObj("resource" :> jsonMarshal(ObjBob)),
     JObj("errors" :> JArr(<<JStr(StrA)>>)),
     JObj(("@date" :> JStr(Str20200101)) @@ ("name" :> JStr(StrBob))),
     JObj(("@ts" :> JStr(StrNotATimestamp)) @@ ("@ref" :> JStr(StrRef))),
     escape("object", JObj("resource" :> JStr(StrA))),
     escape("object", JNull)}

RawDocs == UNION {Placements(n) : n \in Tagged} \cup PlainDocs

\* The bodies the server answers with.
ResponseDocs ==
    PlainDocs
        \cup UNION {Placements(n) : n \in {escape("@date", JStr(Str20200101)),
                                          escape("@date", JStr(Str20200230)),
                                          escape("@ts", JStr(StrNotATimestamp)),
                                          escape("@ref", JStr(StrRef))}}

Statuses == {200, 400, 401}

TransportErrors == {"TransportError: timeout", "TransportError: connection refused"}
RedirectError == "TransportError: stopped after redirects"

\* What http.Client.Do may return: a response, an error, or, when a redirect
\* is refused, both.
HttpOutcomes ==
    {[response |-> Response(st, b), err |-> NoError] : st \in Statuses, b \in ResponseDocs}
        \cup {[response |-> NilResponse, err |-> e] : e \in TransportErrors}
        \cup {[response |-> Response(302, JNull), err |-> RedirectError]}

Endpoints == {defaultEndpoint, BadEndpoint}

QueryExprs == {StringV(StrA), ObjBob, ArrayV(TRUE, <<>>)}
BatchExprs == Seqs({StringV(StrA), ObjBob}, MaxLen)

\* Destinations of Get: Go types, each at its zero value and at a value set before.
DestTypes ==
    {TString, TInt64, TFloat64, TValue, TPtr(TString), TSlice(TString), TSlice(TInt64),
     TSlice(TPtr(TString)), TSlice(TValue), TMap(TString), TMap(TInt64), TMap(TValue),
     TSlice(TSlice(TString))}

NonZero(ty) ==
    CASE ty.k = "string" -> NString(<<"x">>)
      [] ty.k = "int64" -> NInt64(7)
      [] ty.k = "float64" -> NFloat64(75)
      [] ty.k = "Value" -> NValue(LongV(7))
      [] ty.k = "ptr" -> NPtr(ty.e, Zero(ty.e))
      [] ty.k = "slice" -> NSlice(ty.e, <<Zero(ty.e)>>)
      [] ty.k = "map" -> NMap(ty.e, "old" :> Zero(ty.e))

Dests == {Zero(ty) : ty \in DestTypes} \cup {NonZero(ty) : ty \in DestTypes}

\* An array of five elements whose element at index 3 does not decode to a string.
FiveWithBadThird ==
    ArrayV(FALSE, <<StringV(StrA), StringV(StrBob), StringV(StrA), LongV(30), StringV(StrA)>>)

GetValues ==
    {StringV(StrBob), LongV(0 - 5), LongV(30), DoubleV(25), DoubleV(30), BooleanV(TRUE),
     RefV(StrRef), NullV, ObjBob, FiveWithBadThird, ArrayV(TRUE, <<>>),
     ArrayV(FALSE, <<ArrayV(FALSE, <<StringV(StrA)>>), ArrayV(FALSE, <<LongV(30)>>)>>)}
        \cup {ArrayV(FALSE, a) : a \in Seqs({StringV(StrA), LongV(30), DoubleV(25), NullV}, MaxLen)}
        \cup {ObjectV(m) : m \in Maps({"name", "age"}, {StringV(StrBob), LongV(30), NullV}, MaxKeys)}

Steps == {ObjKey("name"), ObjKey("resource"), ArrIndex(0), ArrIndex(1)}
MaxPath == 2
Paths == Seqs(Steps, MaxPath)

AtValues ==
    Leaves \cup InnerContainers
        \cup {ObjectV("resource" :> ObjBob), ObjectV("resource" :> StringV(StrA)),
              ArrayV(FALSE, <<ObjBob, LongV(30)>>), ArrayV(TRUE, <<>>),
              SetRefV("name" :> ObjBob)}

(***************************************************************************)
(* The state.  One operation runs at a time: a value is encoded and the    *)
(* bytes decoded again, a document is decoded, a value is decoded into a   *)
(* native destination or traversed, or the client runs a query.            *)
(***************************************************************************)
VARIABLES
    endpoint,   \* FaunaClient.endpoint
    pc,         \* where the operation is
    op,         \* the operation
    input,      \* its argument: a Value, a document, or the query expression
    param,      \* its second argument: the destination before Get, or the field path
    wire,       \* the JSON written or received
    output,     \* what the operation returned
    request,    \* Query: the prepared request
    response,   \* Query: the http.Response
    err,        \* Query: err
    value,      \* Query: value
    values,     \* BatchQuery: values
    deferred,   \* Query: the deferred drain-and-close is registered
    events      \* Query: the calls made so far, each with the error it returned

vars ==
    <<endpoint, pc, op, input, param, wire, output, request, response, err, value,
      values, deferred, events>>

codecVars == <<input, param, wire, output>>
clientVars == <<request, response, err, value, values, deferred, events>>

Event(ev, e) == [ev |-> ev, err |-> e]

\* NewFaunaClient, with or without an Endpoint configuration.
Init ==
    /\ endpoint \in Endpoints
    /\ pc = "idle"
    /\ op = "none"
    /\ input = Nil
    /\ param = Nil
    /\ wire = Nil
    /\ output = Nil
    /\ request = Nil
    /\ response = NilResponse
    /\ err = NoError
    /\ value = Nil
    /\ values = NNilSlice(TValue)
    /\ deferred = FALSE
    /\ events = <<>>

\* json.Marshal(v)
Marshal(v) ==
    /\ pc = "idle"
    /\ op' = "Marshal"
    /\ input' = v
    /\ wire' = jsonMarshal(v)
    /\ pc' = "wire"
    /\ UNCHANGED <<endpoint, param, output>>
    /\ UNCHANGED clientVars

\* A document arrives to be decoded.
Receive(doc) ==
    /\ pc = "idle"
    /\ op' = "parseJSON"
    /\ input' = doc
    /\ wire' = doc
    /\ pc' = "wire"
    /\ UNCHANGED <<endpoint, param, output>>
    /\ UNCHANGED clientVars

\* parseJSON of the bytes at hand.
Parse ==
    /\ pc = "wire"
    /\ output' = parseJSON(wire)
    /\ pc' = "parsed"
    /\ UNCHANGED <<endpoint, op, input, param, wire>>
    /\ UNCHANGED clientVars

\* v.Get(&dest)
GetInto(v, dest) ==
    /\ pc = "idle"
    /\ op' = "Get"
    /\ input' = v
    /\ param' = dest
    /\ output' = Get(v, dest)
    /\ pc' = "got"
    /\ UNCHANGED <<endpoint, wire>>
    /\ UNCHANGED clientVars

\* v.At(field)
AtField(v, field) ==
    /\ pc = "idle"
    /\ op' = "At"
    /\ input' = v
    /\ param' = field
    /\ output' = At(v, field)
    /\ pc' = "at"
    /\ UNCHANGED <<endpoint, wire>>
    /\ UNCHANGED clientVars

\* client.Query(expr) is called.
QueryStart(expr) ==
    /\ pc = "idle"
    /\ op' = "Query"
    /\ input' = expr
    /\ pc' = "performRequest"
    /\ UNCHANGED <<endpoint, param, wire, output>>
    /\ UNCHANGED clientVars

\* client.BatchQuery(exprs): the expressions are copied to an array (written
\* to the request as a JSON array of the expressions), and Query is called
\* with it.
BatchQueryStart(exprs) ==
    /\ pc = "idle"
    /\ op' = "BatchQuery"
    /\ input' = ArrayV(FALSE, exprs)
    /\ pc' = "performRequest"
    /\ UNCHANGED <<endpoint, param, wire, output>>
    /\ UNCHANGED clientVars

\* Query, to the registration of the deferred call: performRequest prepares
\* the request and, if that succeeded, sends it; a response that is not nil
\* is drained and closed when Query returns.
QueryPerformRequest ==
    /\ pc = "performRequest"
    /\ LET p == prepareRequest(endpoint, input)
       IN  /\ request' = p.request
           /\ IF p.err # NoError
              THEN /\ response' = NilResponse
                   /\ err' = p.err
                   /\ events' = events
              ELSE \E o \in HttpOutcomes :
                     /\ response' = o.response
                     /\ err' = o.err
                     /\ events' = Append(events, Event("Do", o.err))
    /\ deferred' = ~response'.isNil
    /\ pc' = IF err' = NoError THEN "check" ELSE "return"
    /\ UNCHANGED <<endpoint, op, value, values>>
    /\ UNCHANGED codecVars

\* QueryCheck with a fault seeded: the response is decoded whatever the status
\* check said.
QueryCheckThenAlwaysParse ==
    /\ pc = "check"
    /\ err' = checkForResponseErrors(response)
    /\ events' = Append(events, Event("checkForResponseErrors", err'))
    /\ pc' = "parse"
    /\ UNCHANGED <<endpoint, op, request, response, value, values, deferred>>
    /\ UNCHANGED codecVars

\* Query: err was nil, and checkForResponseErrors looks at the response.
QueryCheck ==
    /\ pc = "check"
    /\ err' = checkForResponseErrors(response)
    /\ events' = Append(events, Event("checkForResponseErrors", err'))
    /\ pc' = IF err' = NoError THEN "parse" ELSE "return"
    /\ UNCHANGED <<endpoint, op, request, response, value, values, deferred>>
    /\ UNCHANGED codecVars

\* Query: the check found no error, and parseResponse decodes the body.
QueryParse ==
    /\ pc = "parse"
    /\ LET r == parseResponse(response)
       IN  /\ value' = r.value
           /\ err' = r.err
           /\ events' = Append(events, Event("parseResponse", r.err))
    /\ pc' = "return"
    /\ UNCHANGED <<endpoint, op, request, response, values, deferred>>
    /\ UNCHANGED codecVars

\* QueryReturn with a fault seeded: the body is closed only when the query
\* succeeded.
QueryReturnClosingOnSuccess ==
    /\ pc = "return"
    /\ events' = IF deferred /\ err = NoError
                 THEN events \o <<Event("Drain", NoError), Event("Close", NoError)>>
                 ELSE events
    /\ pc' = IF op = "BatchQuery" THEN "batchGet" ELSE "done"
    /\ UNCHANGED <<endpoint, op, request, response, err, value, values, deferred>>
    /\ UNCHANGED codecVars

\* Query returns: the deferred call, if registered, drains the body and closes it.
QueryReturn ==
    /\ pc = "return"
    /\ events' = IF deferred
                 THEN events \o <<Event("Drain", NoError), Event("Close", NoError)>>
                 ELSE events
    /\ pc' = IF op = "BatchQuery" THEN "batchGet" ELSE "done"
    /\ UNCHANGED <<endpoint, op, request, response, err, value, values, deferred>>
    /\ UNCHANGED codecVars

\* BatchQuery, after Query returned: res.Get(&values) when err is nil.  A nil
\* res cannot answer Get: the call panics.
BatchQueryGet ==
    /\ pc = "batchGet"
    /\ IF err # NoError
       THEN /\ pc' = "done"
            /\ UNCHANGED <<err, values>>
       ELSE IF value = Nil
       THEN /\ pc' = "panic"
            /\ UNCHANGED <<err, values>>
       ELSE LET r == Get(value, values)
            IN  /\ err' = r.err
                /\ values' = r.dest
                /\ pc' = "done"
    /\ UNCHANGED <<endpoint, op, request, response, value, deferred, events>>
    /\ UNCHANGED codecVars

Next ==
    \/ \E v \in Values : Marshal(v)
    \/ \E doc \in RawDocs : Receive(doc)
    \/ Parse
    \/ \E v \in GetValues, dest \in Dests : GetInto(v, dest)
    \/ \E v \in AtValues, field \in Paths : AtField(v, field)
    \/ \E expr \in QueryExprs : QueryStart(expr)
    \/ \E exprs \in BatchExprs : BatchQueryStart(exprs)
    \/ QueryPerformRequest
    \/ QueryCheck
    \/ QueryParse
    \/ QueryReturn
    \/ BatchQueryGet

Spec == Init /\ [][Next]_vars

(***************************************************************************)
(* Properties.                                                             *)
(***************************************************************************)

\* Same variant and same contents: a date is its calendar day, a time is its
\* instant, and a slice is its elements.
RECURSIVE SameValue(_, _)
SameValue(a, b) ==
    /\ a.t = b.t
    /\ CASE a.t = "DateV" -> WallDate(a.tm) = WallDate(b.tm)
         [] a.t = "TimeV" -> a.tm.sec = b.tm.sec /\ a.tm.nano = b.tm.nano
         [] a.t = "ArrayV" ->
               /\ Len(a.a) = Len(b.a)
               /\ \A i \in 1..Len(a.a) : SameValue(a.a[i], b.a[i])
         [] a.t = "ObjectV" ->
               /\ DOMAIN a.m = DOMAIN b.m
               /\ \A k \in DOMAIN a.m : SameValue(a.m[k], b.m[k])
         [] a.t = "SetRefV" ->
               /\ DOMAIN a.params = DOMAIN b.params
               /\ \A k \in DOMAIN a.params : SameValue(a.params[k], b.params[k])
         [] OTHER -> a = b

\* C1: decoding the bytes that encoding a Value wrote yields a Value equal to
\* it, of the same variant and with the same contents.
C1_RoundTrip ==
    (pc = "parsed" /\ op = "Marshal") => (output.ok /\ SameValue(output.v, input))

\* C2: a TimeV is written as {"@ts": s} where s has the fixed width of
\* YYYY-MM-DDTHH:MM:SS.fffffffffZ, ends in "Z" and denotes, read as UTC, the
\* instant the TimeV holds, whatever its zone and its nanoseconds.
C2_TimeVFixedWidthUTC ==
    (op = "Marshal" /\ pc \in {"wire", "parsed"} /\ input.t = "TimeV") =>
        /\ wire.j = "obj" /\ DOMAIN wire.m = {"@ts"} /\ wire.m["@ts"].j = "str"
        /\ LET text == wire.m["@ts"].s
               read == ParseTime(text)
           IN  /\ Len(text) = 30
               /\ text[20] = "." /\ text[30] = "Z"
               /\ read.ok
               /\ read.v.tm.sec = input.tm.sec
               /\ read.v.tm.nano = input.tm.nano

\* C3: NullV.Get returns no error for every destination and the destination
\* is at its zero value afterwards, also when it held a value before; an
\* array of "a" and null decodes into a slice of optional strings as "a" and
\* absent.
C3_NullLeavesDestinationZero ==
    /\ (pc = "got" /\ input = NullV) =>
           (output.err = NoError /\ output.dest = Zero(param.ty))
    /\ (pc = "got" /\ input = ArrayV(FALSE, <<StringV(StrA), NullV>>)
           /\ param.ty = TSlice(TPtr(TString))) =>
           /\ output.err = NoError
           /\ output.dest = NSlice(TPtr(TString),
                                   <<NPtr(TString, NString(StrA)), NNilPtr(TString)>>)

RECURSIVE Represents(_, _)
Represents(n, v) ==
    IF v.t = "NullV" THEN n = Zero(n.ty)
    ELSE CASE n.ty.k = "string" -> v.t = "StringV" /\ n.s = v.s
           [] n.ty.k = "int64" ->
                 \/ v.t = "LongV" /\ n.n = v.n
                 \/ v.t = "DoubleV" /\ 10 * n.n = v.tenths
           [] n.ty.k = "float64" ->
                 \/ v.t = "LongV" /\ n.tenths = 10 * v.n
                 \/ v.t = "DoubleV" /\ n.tenths = v.tenths
           [] n.ty.k = "Value" -> n.v = v
           [] n.ty.k = "ptr" -> ~n.isNil /\ Represents(n.to, v)
           [] n.ty.k = "slice" ->
                 /\ v.t = "ArrayV" /\ ~n.isNil
                 /\ Len(n.a) = Len(v.a)
                 /\ \A i \in 1..Len(v.a) : n.a[i].ty = n.ty.e /\ Represents(n.a[i], v.a[i])
           [] n.ty.k = "map" ->
                 /\ v.t = "ObjectV" /\ ~n.isNil
                 /\ DOMAIN n.m = DOMAIN v.m
                 /\ \A k \in DOMAIN v.m : n.m[k].ty = n.ty.e /\ Represents(n.m[k], v.m[k])

\* C5: decoding an ArrayV into a sequence or an ObjectV into a mapping either
\* fails and leaves the destination as it was, or succeeds and stores every
\* element, in order and under its key; BatchQuery returns no values together
\* with an error.
C5_ContainerDecodeAtomic ==
    /\ (pc = "got" /\ IsContainer(input) /\ param.ty.k \in {"slice", "map"}) =>
           /\ output.err # NoError => output.dest = param
           /\ output.err = NoError => Represents(output.dest, input)
    /\ (pc = "done" /\ op = "BatchQuery" /\ err # NoError) => values.a = <<>>

C5_Witness ==
    /\ pc = "got"
    /\ input = FiveWithBadThird
    /\ param = NonZero(TSlice(TString))
    /\ output.err = TypeMismatch
    /\ output.dest = param

\* A JSON object with exactly one key, which is a reserved tag.
IsTaggedNode(doc) ==
    doc.j = "obj" /\ Cardinality(DOMAIN doc.m) = 1 /\ DOMAIN doc.m \subseteq ReservedTags

\* A JSON object with exactly the key "object".
IsWrapperNode(doc) == doc.j = "obj" /\ DOMAIN doc.m = {"object"}

TagOf(doc) == CHOOSE k \in DOMAIN doc.m : TRUE

\* The payload of a tagged node is of the tag's format.
WellFormedPayload(doc) ==
    LET payload == doc.m[TagOf(doc)]
    IN  CASE TagOf(doc) = "@date" -> payload.j = "str" /\ ParseDateText(payload.s).ok
          [] TagOf(doc) = "@ts" -> payload.j = "str" /\ ParseTime(payload.s).ok
          [] TagOf(doc) = "@ref" -> payload.j = "str"
          [] TagOf(doc) = "@set" -> payload.j = "obj"

VariantOf(tag) ==
    CASE tag = "@date" -> "DateV"
      [] tag = "@ts" -> "TimeV"
      [] tag = "@ref" -> "RefV"
      [] tag = "@set" -> "SetRefV"

\* Some tagged node of the document, at any depth, has a malformed payload.
RECURSIVE MalformedTagAnywhere(_)
MalformedTagAnywhere(doc) ==
    CASE doc.j = "arr" -> \E i \in 1..Len(doc.a) : MalformedTagAnywhere(doc.a[i])
      [] doc.j = "obj" ->
            \/ IsTaggedNode(doc) /\ ~WellFormedPayload(doc)
            \/ \E k \in DOMAIN doc.m : MalformedTagAnywhere(doc.m[k])
      [] OTHER -> FALSE

\* Some ObjectV of the value, at any depth, has a reserved tag as its only key.
RECURSIVE HasTagKeyedObject(_)
HasTagKeyedObject(v) ==
    CASE v.t = "ArrayV" -> \E i \in 1..Len(v.a) : HasTagKeyedObject(v.a[i])
      [] v.t = "SetRefV" -> \E k \in DOMAIN v.params : HasTagKeyedObject(v.params[k])
      [] v.t = "ObjectV" ->
            \/ Cardinality(DOMAIN v.m) = 1 /\ DOMAIN v.m \subseteq ReservedTags
            \/ \E k \in DOMAIN v.m : HasTagKeyedObject(v.m[k])
      [] OTHER -> FALSE

\* C6 as stated: at every depth of a document, a single-key object keyed by a
\* reserved tag makes the decoding fail when its payload is malformed, and
\* never becomes a generic Object.
C6_TagNeverGenericObject ==
    pc = "parsed" =>
        /\ MalformedTagAnywhere(wire) => ~output.ok
        /\ output.ok => ~HasTagKeyedObject(output.v)

\* Some tagged node that is not the payload of an "object" or "@set" wrapper
\* has a malformed payload.  isPayload: doc is such a payload, a mapping whose
\* keys are the entries' names.
RECURSIVE MalformedTagOutsideWrapper(_, _)
MalformedTagOutsideWrapper(doc, isPayload) ==
    CASE doc.j = "arr" ->
            \E i \in 1..Len(doc.a) : MalformedTagOutsideWrapper(doc.a[i], FALSE)
      [] doc.j = "obj" ->
            IF ~isPayload /\ IsTaggedNode(doc)
            THEN \/ ~WellFormedPayload(doc)
                 \/ /\ TagOf(doc) = "@set"
                    /\ MalformedTagOutsideWrapper(doc.m["@set"], TRUE)
            ELSE IF ~isPayload /\ IsWrapperNode(doc)
            THEN /\ doc.m["object"].j = "obj"
                 /\ MalformedTagOutsideWrapper(doc.m["object"], TRUE)
            ELSE \E k \in DOMAIN doc.m : MalformedTagOutsideWrapper(doc.m[k], FALSE)
      [] OTHER -> FALSE

\* The value v, decoded from doc, has the tag's variant wherever doc has a
\* tagged node that is not the payload of a wrapper.
RECURSIVE TypedWhereTagged(_, _, _)
TypedWhereTagged(doc, v, isPayload) ==
    CASE doc.j = "arr" ->
            /\ v.t = "ArrayV" /\ Len(v.a) = Len(doc.a)
            /\ \A i \in 1..Len(doc.a) : TypedWhereTagged(doc.a[i], v.a[i], FALSE)
      [] doc.j = "obj" ->
            IF ~isPayload /\ IsTaggedNode(doc)
            THEN /\ v.t = VariantOf(TagOf(doc))
                 /\ TagOf(doc) = "@set" =>
                        /\ DOMAIN v.params = DOMAIN doc.m["@set"].m
                        /\ \A k \in DOMAIN v.params :
                               TypedWhereTagged(doc.m["@set"].m[k], v.params[k], FALSE)
            ELSE IF ~isPayload /\ IsWrapperNode(doc)
            THEN /\ v.t = "ObjectV"
                 /\ DOMAIN v.m = DOMAIN doc.m["object"].m
                 /\ \A k \in DOMAIN v.m :
                        TypedWhereTagged(doc.m["object"].m[k], v.m[k], FALSE)
            ELSE /\ v.t = "ObjectV"
                 /\ DOMAIN v.m = DOMAIN doc.m
                 /\ \A k \in DOMAIN v.m : TypedWhereTagged(doc.m[k], v.m[k], FALSE)
      [] OTHER -> TRUE

\* parseResponse has run in the query under way.
ResponseParsed == \E i \in 1..Len(events) : events[i].ev = "parseResponse"

\* C6 as amended: a single-key object keyed by a reserved tag that is not the
\* direct payload of an "object" or "@set" wrapper decodes to the tag's
\* variant when its payload is well-formed, and makes the decoding fail with
\* WireFormatError and no value when it is malformed, at every depth; Query
\* returns that failure with a nil value.
C6_TagPrecedenceOutsideWrappers ==
    /\ pc = "parsed" =>
           /\ MalformedTagOutsideWrapper(wire, FALSE) => output = WireFormatError
           /\ output.ok => TypedWhereTagged(wire, output.v, FALSE)
    /\ (pc = "return" /\ ResponseParsed) =>
           /\ MalformedTagOutsideWrapper(response.body, FALSE) =>
                  (value = Nil /\ err = WireFormatError.err)
           /\ (/\ err = NoError
               /\ response.body.j = "obj"
               /\ "resource" \in DOMAIN response.body.m
               /\ ~IsWrapperNode(response.body)
               /\ ~IsTaggedNode(response.body)) =>
                  TypedWhereTagged(response.body.m["resource"], value, FALSE)

C6_Witness ==
    /\ pc = "return"
    /\ ResponseParsed
    /\ response.body =
           JObj("resource" :> JObj("data" :> JArr(<<escape("@ts", JStr(StrNotATimestamp))>>)))
    /\ value = Nil
    /\ err = WireFormatError.err

\* The JSON the claim gives for a Value.
RECURSIVE WireShape(_, _)
WireShape(v, doc) ==
    CASE v.t = "StringV" -> doc = JStr(v.s)
      [] v.t = "LongV" -> doc = JNum(v.n, 0)
      [] v.t = "DoubleV" -> doc.j = "num"
      [] v.t = "BooleanV" -> doc = JBool(v.b)
      [] v.t = "NullV" -> doc = JNull
      [] v.t = "ArrayV" ->
            /\ doc.j = "arr" /\ Len(doc.a) = Len(v.a)
            /\ \A i \in 1..Len(v.a) : WireShape(v.a[i], doc.a[i])
      [] v.t = "DateV" ->
            doc.j = "obj" /\ DOMAIN doc.m = {"@date"} /\ doc.m["@date"].j = "str"
      [] v.t = "RefV" -> doc = JObj("@ref" :> JStr(v.id))
      [] v.t = "SetRefV" ->
            /\ doc.j = "obj" /\ DOMAIN doc.m = {"@set"}
            /\ doc.m["@set"].j = "obj"
            /\ DOMAIN doc.m["@set"].m = DOMAIN v.params
            /\ \A k \in DOMAIN v.params : WireShape(v.params[k], doc.m["@set"].m[k])
      [] v.t = "ObjectV" ->
            /\ doc.j = "obj" /\ DOMAIN doc.m = {"object"}
            /\ doc.m["object"].j = "obj"
            /\ DOMAIN doc.m["object"].m = DOMAIN v.m
            /\ \A k \in DOMAIN v.m : WireShape(v.m[k], doc.m["object"].m[k])
      [] OTHER -> TRUE

\* C7: every ObjectV is written inside a single-key {"object": ...} object at
\* every depth, strings, numbers and booleans bare, NullV as null, an ArrayV as
\* a bare JSON array, and DateV, RefV and SetRefV as single-key objects keyed
\* @date, @ref and @set.
C7_EncodingShapes ==
    (op = "Marshal" /\ pc \in {"wire", "parsed"}) => WireShape(input, wire)

\* The query under way has returned.
QueryReturned == pc \in {"batchGet", "done", "panic"} /\ op \in {"Query", "BatchQuery"}

\* C8: parseResponse runs only after the request was sent without an error
\* and checkForResponseErrors found none, in that order; when preparing the
\* request, sending it or the status check fails, Query returns that error and
\* a nil value, and parseResponse has not run.
C8_DecoderOnlyAfterCleanStatus ==
    /\ \A i \in 1..Len(events) :
           events[i].ev = "parseResponse" =>
               /\ i = 3
               /\ events[1] = Event("Do", NoError)
               /\ events[2] = Event("checkForResponseErrors", NoError)
    /\ \A i \in 1..Len(events) :
           (QueryReturned /\ events[i].ev \in {"Do", "checkForResponseErrors"}
               /\ events[i].err # NoError) =>
               (err = events[i].err /\ value = Nil /\ ~ResponseParsed)
    /\ (QueryReturned /\ request = Nil) =>
           (err = NewRequestError /\ value = Nil /\ events = <<>>)

C8_Witness ==
    /\ pc = "done"
    /\ op = "Query"
    /\ Len(events) >= 2
    /\ events[2] = Event("checkForResponseErrors", "ServerError: unauthorized")
    /\ err = "ServerError: unauthorized"
    /\ value = Nil
    /\ ~ResponseParsed

\* C9: Query returns the Value under the key "resource" of the response
\* document; when that path does not resolve, it returns a nil value and the
\* path's own error, never a nil value without an error, and BatchQuery never
\* calls Get on a nil Value.
C9_ResourceOrPathError ==
    /\ (pc = "return" /\ ResponseParsed /\ parseJSON(response.body).ok) =>
           LET root == parseJSON(response.body).v
           IN  IF root.t = "ObjectV" /\ "resource" \in DOMAIN root.m
               THEN value = root.m["resource"] /\ err = NoError
               ELSE /\ value = Nil
                    /\ err = IF root.t = "ObjectV" THEN MissingKey ELSE NotTransversable
    /\ (pc = "return" /\ ResponseParsed) => ~(value = Nil /\ err = NoError)
    /\ pc # "panic"

C9_Witness ==
    /\ pc = "return"
    /\ ResponseParsed
    /\ response.body = JObj("errors" :> JArr(<<JStr(StrA)>>))
    /\ value = Nil
    /\ err = MissingKey

BodyEvents(ev) == {i \in 1..Len(events) : events[i].ev = ev}

\* C10: when the HTTP call returned a response, its body is drained and then
\* closed, once each and after the status check and the parsing, by the time
\* Query returns and not before; when it returned none, nothing is drained or
\* closed.
C10_BodyDrainedThenClosedOnce ==
    /\ (QueryReturned /\ ~response.isNil) =>
           /\ Len(events) >= 2
           /\ BodyEvents("Drain") = {Len(events) - 1}
           /\ BodyEvents("Close") = {Len(events)}
    /\ (QueryReturned /\ response.isNil) =>
           BodyEvents("Drain") \cup BodyEvents("Close") = {}
    /\ ~QueryReturned => BodyEvents("Drain") \cup BodyEvents("Close") = {}

C10_Witness ==
    /\ pc = "done"
    /\ ~response.isNil
    /\ err = RedirectError
    /\ events = <<Event("Do", RedirectError), Event("Drain", NoError), Event("Close", NoError)>>

=============================================================================
